---------------------------- MODULE Spec2Model ----------------------------
(***************************************************************************)
(* Model of the Supermemory plugin: the container-tag resolver, the query  *)
(* sanitizer with its lazily cached host stripper, the two lifecycle hook  *)
(* handlers, the search tools and the remote requests they issue.          *)
(*                                                                         *)
(* JavaScript strings are TLA+ strings, read one character at a time with  *)
(* SubSeq.  Other JavaScript values are small records tagged by "type".    *)
(***************************************************************************)
EXTENDS Integers, Sequences, FiniteSets, TLC

----------------------------------------------------------------------------
(* JavaScript values                                                       *)

Undefined == [type |-> "undefined"]
Null == [type |-> "null"]
Str(s) == [type |-> "string", str |-> s]
Num(n) == [type |-> "number", num |-> n]

\* JavaScript truthiness of a value (the `if (x)` and `!x` tests).
Truthy(v) ==
    CASE v.type = "string" -> v.str # ""
      [] v.type = "number" -> v.num # 0
      [] OTHER -> FALSE

----------------------------------------------------------------------------
(* Characters and the regular-expression classes \d, \w, \s, \b            *)

Digit == {"0", "1", "2", "3", "4", "5", "6", "7", "8", "9"}
LowerCase == {"a", "b", "c", "d", "e", "f", "g", "h", "i", "j", "k", "l", "m",
              "n", "o", "p", "q", "r", "s", "t", "u", "v", "w", "x", "y", "z"}
UpperCase == {"A", "B", "C", "D", "E", "F", "G", "H", "I", "J", "K", "L", "M",
              "N", "O", "P", "Q", "R", "S", "T", "U", "V", "W", "X", "Y", "Z"}
WordChar == Digit \cup LowerCase \cup UpperCase \cup {"_"}
WhiteSpace == {" ", "\t", "\n"}
Quote == {"\"", "'"}

Uppers == "ABCDEFGHIJKLMNOPQRSTUVWXYZ"
Lowers == "abcdefghijklmnopqrstuvwxyz"

\* Case folding of one character, as the /i flag compares ASCII letters.
ToLower(c) ==
    IF c \in UpperCase
    THEN LET k == CHOOSE j \in 1..26 : SubSeq(Uppers, j, j) = c
         IN SubSeq(Lowers, k, k)
    ELSE c

\* The character at position i (1-based); "" beyond either end.
At(s, i) == IF i >= 1 /\ i <= Len(s) THEN SubSeq(s, i, i) ELSE ""

\* The text from position i to the end.
From(s, i) == IF i > Len(s) THEN "" ELSE SubSeq(s, i, Len(s))

\* \b between positions i-1 and i.
Boundary(s, i) == (At(s, i - 1) \in WordChar) # (At(s, i) \in WordChar)

\* The literal lit occurs at position i.
HasLit(s, i, lit) == \A k \in 1..Len(lit) : At(s, i + k - 1) = At(lit, k)

\* The lower-case literal lit occurs at position i, ignoring case.
HasLitCI(s, i, lit) ==
    \A k \in 1..Len(lit) : ToLower(At(s, i + k - 1)) = At(lit, k)

\* A greedy class*: the first position >= i whose character is not in cls.
RunEnd(s, i, cls) ==
    CHOOSE j \in i..(IF i > Len(s) THEN i ELSE Len(s) + 1) :
        /\ \A k \in i..(j - 1) : At(s, k) \in cls
        /\ At(s, j) \notin cls

\* A greedy [^...]*: the first position >= i whose character is in stop,
\* or the end of the text.
RunEndNot(s, i, stop) ==
    CHOOSE j \in i..(IF i > Len(s) THEN i ELSE Len(s) + 1) :
        /\ \A k \in i..(j - 1) : At(s, k) \notin stop
        /\ (j >= Len(s) + 1 \/ At(s, j) \in stop)

IsDigits(s, i, n) == \A k \in i..(i + n - 1) : At(s, k) \in Digit

SetMax(S) == CHOOSE x \in S : \A y \in S : y <= x


----------------------------------------------------------------------------
(* The sanitizer's patterns.  Each matcher tries its regular expression at *)
(* position i of s and returns the position just after the match, or 0     *)
(* when the expression does not match there.                               *)

\* The platform names of CHANNEL_METADATA_PATTERN, folded to lower case.
CHANNEL_NAMES ==
    {"telegram", "discord", "slack", "signal", "whatsapp", "imessage", "sms",
     "matrix", "teams", "zalo", "web", "webchat", "google chat",
     "bluebubbles", "zalo personal"}

\* /^\s*\[(?:Telegram|...)[^\]]*\]\s*/i, anchored at the start of the text.
CHANNEL_METADATA_PATTERN(s) ==
    LET a == RunEnd(s, 1, WhiteSpace)
        c == RunEndNot(s, a + 1, {"]"})
    IN  IF /\ At(s, a) = "["
           /\ \E name \in CHANNEL_NAMES : HasLitCI(s, a + 1, name)
           /\ At(s, c) = "]"
        THEN RunEnd(s, c + 1, WhiteSpace)
        ELSE 0

\* /\d{4}-\d{2}-\d{2}[T ]\d{2}:\d{2}(?::\d{2})?(?:\.\d+)?
\*   (?:Z|[+-]\d{2}:?\d{2})?\s*(?:UTC)?/
IsoTimestampPattern(s, i) ==
    IF ~ (/\ IsDigits(s, i, 4) /\ At(s, i + 4) = "-"
          /\ IsDigits(s, i + 5, 2) /\ At(s, i + 7) = "-"
          /\ IsDigits(s, i + 8, 2) /\ At(s, i + 10) \in {"T", " "}
          /\ IsDigits(s, i + 11, 2) /\ At(s, i + 13) = ":"
          /\ IsDigits(s, i + 14, 2))
    THEN 0
    ELSE LET a == i + 16
             b == IF At(s, a) = ":" /\ IsDigits(s, a + 1, 2) THEN a + 3 ELSE a
             c == IF At(s, b) = "." /\ At(s, b + 1) \in Digit
                  THEN RunEnd(s, b + 1, Digit) ELSE b
             d == IF At(s, c) = "Z" THEN c + 1
                  ELSE IF At(s, c) \in {"+", "-"} /\ IsDigits(s, c + 1, 2)
                       THEN IF At(s, c + 3) = ":" /\ IsDigits(s, c + 4, 2)
                            THEN c + 6
                            ELSE IF IsDigits(s, c + 3, 2) THEN c + 5 ELSE c
                       ELSE c
             e == RunEnd(s, d, WhiteSpace)
         IN  IF HasLit(s, e, "UTC") THEN e + 3 ELSE e

\* /\b\d{10,13}\b/
UnixTimestampPattern(s, i) ==
    LET e == RunEnd(s, i, Digit)
    IN  IF /\ Boundary(s, i) /\ At(s, i) \in Digit
           /\ e - i >= 10 /\ e - i <= 13
           /\ Boundary(s, e)
        THEN e ELSE 0

\* /\+\d+[smhd]\b/
RelativeTimePattern(s, i) ==
    LET e == RunEnd(s, i + 1, Digit)
    IN  IF /\ At(s, i) = "+" /\ e > i + 1
           /\ At(s, e) \in {"s", "m", "h", "d"}
           /\ Boundary(s, e + 1)
        THEN e + 1 ELSE 0

\* /\bid:\s*\d+\b/i
IdPattern(s, i) ==
    LET a == RunEnd(s, i + 3, WhiteSpace)
        e == RunEnd(s, a, Digit)
    IN  IF /\ Boundary(s, i) /\ HasLitCI(s, i, "id:")
           /\ e > a /\ Boundary(s, e)
        THEN e ELSE 0

\* /\buser_?id:\s*["']?[\w-]+["']?\b/i.  The run [\w-]+ gives characters
\* back until a \b is found after it; a closing quote is kept only when a
\* word character follows it.
UserIdPattern(s, i) ==
    LET j == IF At(s, i + 4) = "_" THEN i + 5 ELSE i + 4
        a == RunEnd(s, j + 3, WhiteSpace)
        q == IF At(s, a) \in Quote THEN a + 1 ELSE a
        L == RunEnd(s, q, WordChar \cup {"-"})
        ends == {e \in (q + 1)..L : Boundary(s, e)}
    IN  IF ~ (/\ Boundary(s, i) /\ HasLitCI(s, i, "user")
              /\ HasLitCI(s, j, "id:") /\ L > q)
        THEN 0
        ELSE IF At(s, L) \in Quote /\ Boundary(s, L + 1) THEN L + 1
        ELSE IF ends # {} THEN SetMax(ends)
        ELSE 0

\* /\bchat_?id:\s*\d+\b/i
ChatIdPattern(s, i) ==
    LET j == IF At(s, i + 4) = "_" THEN i + 5 ELSE i + 4
        a == RunEnd(s, j + 3, WhiteSpace)
        e == RunEnd(s, a, Digit)
    IN  IF /\ Boundary(s, i) /\ HasLitCI(s, i, "chat")
           /\ HasLitCI(s, j, "id:")
           /\ e > a /\ Boundary(s, e)
        THEN e ELSE 0

JSON_KEYS == {"\"id\"", "\"user\"", "\"chat\"", "\"message\""}

\* /\{[^{}]*"(?:id|user|chat|message)"[^{}]*\}/
JsonObjectPattern(s, i) ==
    LET r == RunEndNot(s, i + 1, {"{", "}"})
    IN  IF /\ At(s, i) = "{" /\ At(s, r) = "}"
           /\ \E p \in (i + 1)..(r - 1) : \E key \in JSON_KEYS : HasLit(s, p, key)
        THEN r + 1 ELSE 0

\* /\[\s*\{[^[\]]*\}\s*\]/
JsonArrayPattern(s, i) ==
    LET a == RunEnd(s, i + 1, WhiteSpace)
        r == RunEndNot(s, a + 1, {"[", "]"})
        t == SetMax({k \in a..(r - 1) : At(s, k) \notin WhiteSpace})
    IN  IF /\ At(s, i) = "[" /\ At(s, a) = "{" /\ At(s, r) = "]"
           /\ t > a /\ At(s, t) = "}"
        THEN r + 1 ELSE 0

\* The pattern tables, in the order the code lists them.
TIMESTAMP_PATTERNS == <<"iso", "unix", "relative">>
USER_ID_PATTERNS == <<"id", "user_id", "chat_id">>
JSON_ARTIFACT_PATTERNS == <<"json_object", "json_array">>

\* One pattern of the tables tried at position i.
Match(pattern, s, i) ==
    CASE pattern = "iso" -> IsoTimestampPattern(s, i)
      [] pattern = "unix" -> UnixTimestampPattern(s, i)
      [] pattern = "relative" -> RelativeTimePattern(s, i)
      [] pattern = "id" -> IdPattern(s, i)
      [] pattern = "user_id" -> UserIdPattern(s, i)
      [] pattern = "chat_id" -> ChatIdPattern(s, i)
      [] pattern = "json_object" -> JsonObjectPattern(s, i)
      [] pattern = "json_array" -> JsonArrayPattern(s, i)

\* A test that tries the pattern at the index start only, as a sticky
\* pattern would.
TestAt_Sticky(pattern, s, start) == Match(pattern, s, start + 1) > 0

\* pattern.test(s) for a global pattern whose lastIndex is start: the
\* search begins at the 0-based index start.
TestAt(pattern, s, start) ==
    \E i \in (start + 1)..Len(s) : Match(pattern, s, i) > 0

\* pattern.lastIndex after that test: the 0-based index just after the
\* match, or 0 when the test failed.
LastIndexAfterTest(pattern, s, start) ==
    IF TestAt(pattern, s, start)
    THEN LET first == CHOOSE i \in (start + 1)..Len(s) :
                          /\ Match(pattern, s, i) > 0
                          /\ \A j \in (start + 1)..(i - 1) : Match(pattern, s, j) = 0
         IN  Match(pattern, s, first) - 1
    ELSE 0

\* pattern.test(s) from lastIndex 0: the pattern matches somewhere in s.
Test(pattern, s) == TestAt(pattern, s, 0)

\* s.replace(pattern, " ") for a global pattern: every leftmost match,
\* scanning on from the end of the previous one, becomes one space.
RECURSIVE ReplaceFrom(_, _, _)
ReplaceFrom(pattern, s, i) ==
    IF i > Len(s) THEN ""
    ELSE IF Match(pattern, s, i) > 0
         THEN " " \o ReplaceFrom(pattern, s, Match(pattern, s, i))
         ELSE At(s, i) \o ReplaceFrom(pattern, s, i + 1)

Replace(pattern, s) == ReplaceFrom(pattern, s, 1)

\* The for-loop over one pattern table: each replace works on the result
\* of the one before.
RECURSIVE ReplaceEach(_, _, _)
ReplaceEach(patterns, k, s) ==
    IF k > Len(patterns) THEN s
    ELSE ReplaceEach(patterns, k + 1, Replace(patterns[k], s))

\* s.replace(/\s+/g, " ")
RECURSIVE CollapseFrom(_, _)
CollapseFrom(s, i) ==
    IF i > Len(s) THEN ""
    ELSE IF At(s, i) \in WhiteSpace
         THEN " " \o CollapseFrom(s, RunEnd(s, i, WhiteSpace))
         ELSE At(s, i) \o CollapseFrom(s, i + 1)

\* s.trim()
Trim(s) ==
    LET keep == {k \in 1..Len(s) : At(s, k) \notin WhiteSpace}
    IN  IF keep = {} THEN ""
        ELSE SubSeq(s, CHOOSE k \in keep : \A m \in keep : k <= m, SetMax(keep))

\* A normalization that takes every whitespace character out.
NormalizeWhitespace_RemovesAll(s) ==
    LET RECURSIVE Squeeze(_)
        Squeeze(i) ==
            IF i > Len(s) THEN ""
            ELSE IF At(s, i) \in WhiteSpace THEN Squeeze(i + 1)
            ELSE At(s, i) \o Squeeze(i + 1)
    IN  Squeeze(1)

\* A normalization that trims and does not collapse.
NormalizeWhitespace_TrimOnly(s) == Trim(s)

\* sanitized.replace(/\s+/g, " ").trim()
NormalizeWhitespace(s) == Trim(CollapseFrom(s, 1))


----------------------------------------------------------------------------
(* State                                                                   *)

VARIABLES
    stripEnvelopeImpl,  \* the module-level slot: "undefined", "null" or "function"
    hostSdk,            \* what require("clawdbot/plugin-sdk") finds in this process
    lookups,            \* how many times the require has been attempted
    input,              \* the argument the next sanitizer call receives
    call,               \* the last direct call of a core function and its result
    config,             \* the parsed plugin configuration
    request,            \* the request a handler has sent and is awaiting
    stored,             \* the adds sent so far: conversation and container tag
    lastIndex,          \* the lastIndex of each global pattern of the tables
    inflight            \* the requests of other handlers that are at their await

vars == <<stripEnvelopeImpl, hostSdk, lookups, input, call,
          config, request, stored, lastIndex, inflight>>

\* "missing": the require throws; "no_export": the module loads but has no
\* function stripEnvelope; "function": it exports one.
HostSdks == {"missing", "no_export", "function"}

NoCall == [fn |-> "none"]

----------------------------------------------------------------------------
(* sanitize-query.ts                                                       *)

\* The host's stripEnvelope, which is not part of this repository: it takes
\* a leading bracketed header off the text whatever platform it names.
HostStripEnvelope(text) ==
    LET c == RunEndNot(text, 2, {"]"})
    IN  IF At(text, 1) = "[" /\ c > 2 /\ At(text, c) = "]"
        THEN From(text, RunEnd(text, c + 1, WhiteSpace))
        ELSE text

\* The try block of getStripEnvelope: the value the lookup leaves in the slot.
LookupStripEnvelope(sdk) == IF sdk = "function" THEN "function" ELSE "null"

\* A getStripEnvelope that does not record a failed lookup.
getStripEnvelope_ForgetsFailure(slot, sdk) ==
    IF slot # "undefined" THEN slot
    ELSE IF sdk = "function" THEN "function" ELSE "undefined"

\* getStripEnvelope(): the slot's value after the call, which is also what
\* the call returns.
getStripEnvelope(slot, sdk) ==
    IF slot # "undefined" THEN slot ELSE LookupStripEnvelope(sdk)

\* Whether getStripEnvelope() attempts the require.
LooksUp(slot) == slot = "undefined"

\* Whether require("clawdbot/plugin-sdk") throws.
RequireThrows(sdk) == sdk = "missing"

\* Whether an exception leaves getStripEnvelope(): the require sits in a
\* try block whose catch takes whatever is thrown.
LookupRaises(slot, sdk) ==
    LET thrown == LooksUp(slot) /\ RequireThrows(sdk)
        caught == thrown
    IN  thrown /\ ~ caught

\* text.replace(CHANNEL_METADATA_PATTERN, "")
FallbackStrip(text) ==
    IF CHANNEL_METADATA_PATTERN(text) > 0
    THEN From(text, CHANNEL_METADATA_PATTERN(text))
    ELSE text

\* A stripChannelEnvelope that runs the fallback pattern over what the
\* host's function returned.
stripChannelEnvelope_Both(impl, text) ==
    IF impl = "function"
    THEN FallbackStrip(HostStripEnvelope(text))
    ELSE FallbackStrip(text)

\* stripChannelEnvelope(text), given what getStripEnvelope() returned.
stripChannelEnvelope(impl, text) ==
    IF impl = "function"
    THEN HostStripEnvelope(text)
    ELSE IF CHANNEL_METADATA_PATTERN(text) > 0
         THEN From(text, CHANNEL_METADATA_PATTERN(text))
         ELSE text

\* An early return that tests only `!query`.
RejectsInput_FalsyOnly(query) == ~ Truthy(query)

\* The early return of sanitizeQuery and needsSanitization.
RejectsInput(query) == ~ Truthy(query) \/ query.type # "string"

\* A value that is not a string has no replace method: past the early
\* return it makes the call throw a TypeError.
Raises(query) == ~ RejectsInput(query) /\ query.type # "string"

\* Whether sanitizeQuery(query) throws.
SanitizeRaises(query, slot, sdk) ==
    \/ Raises(query)
    \/ ~ RejectsInput(query) /\ LookupRaises(slot, sdk)

\* A sanitizeQuery that removes identifiers before timestamps.
sanitizeQuery_IdentifiersFirst(query, impl) ==
    IF RejectsInput(query) \/ Raises(query) THEN ""
    ELSE LET s1 == stripChannelEnvelope(impl, query.str)
             s2 == ReplaceEach(USER_ID_PATTERNS, 1, s1)
             s3 == ReplaceEach(TIMESTAMP_PATTERNS, 1, s2)
             s4 == ReplaceEach(JSON_ARTIFACT_PATTERNS, 1, s3)
         IN  NormalizeWhitespace(s4)

\* sanitizeQuery(query), given what getStripEnvelope() returns.
sanitizeQuery(query, impl) ==
    IF RejectsInput(query) \/ Raises(query) THEN ""
    ELSE LET s1 == stripChannelEnvelope(impl, query.str)
             s2 == ReplaceEach(TIMESTAMP_PATTERNS, 1, s1)
             s3 == ReplaceEach(USER_ID_PATTERNS, 1, s2)
             s4 == ReplaceEach(JSON_ARTIFACT_PATTERNS, 1, s3)
         IN  NormalizeWhitespace(s4)

\* The global patterns in the order needsSanitization tests them.
GLOBAL_PATTERNS == TIMESTAMP_PATTERNS \o USER_ID_PATTERNS \o JSON_ARTIFACT_PATTERNS

\* Every global pattern as the module creates it.
ZeroLastIndex == [pattern \in {GLOBAL_PATTERNS[k] : k \in 1..Len(GLOBAL_PATTERNS)} |-> 0]

\* The index a test of needsSanitization starts from, which forgets the
\* reset and so is what the pattern's previous use left.
TestStart_NoReset(li, pattern) == li[pattern]

\* `pattern.lastIndex = 0` before each test of needsSanitization.
TestStart(li, pattern) == [li EXCEPT ![pattern] = 0][pattern]

\* The three loops of needsSanitization from pattern k on: what the
\* function returns and the lastIndex values it leaves.
RECURSIVE TestEach(_, _, _)
TestEach(k, s, li) ==
    IF k > Len(GLOBAL_PATTERNS) THEN [needed |-> FALSE, lastIndex |-> li]
    ELSE \* one evaluation of the pattern name and of the start index
         LET pattern == GLOBAL_PATTERNS[k]
             start == TestStart(li, pattern)
         IN  IF TestAt(pattern, s, start)
             THEN [needed |-> TRUE,
                   lastIndex |-> [li EXCEPT ![pattern] =
                                      LastIndexAfterTest(pattern, s, start)]]
             ELSE TestEach(k + 1, s, [li EXCEPT ![pattern] = 0])

\* needsSanitization(query) run with the patterns in state li.
RunNeedsSanitization(query, li) ==
    IF RejectsInput(query) \/ Raises(query)
    THEN [needed |-> FALSE, lastIndex |-> li]
    ELSE IF CHANNEL_METADATA_PATTERN(query.str) > 0
         THEN [needed |-> TRUE, lastIndex |-> li]
         ELSE TestEach(1, query.str, li)

\* What needsSanitization(query) returns.
needsSanitization(query, li) == RunNeedsSanitization(query, li).needed

\* The lastIndex values after a sanitizeQuery(query) call: replace with a
\* global pattern starts from 0 and leaves 0.
LastIndexAfterSanitize(query, li) ==
    IF RejectsInput(query) THEN li ELSE ZeroLastIndex

\* The slot after a sanitizeQuery(query) call.
SlotAfterSanitize(query, slot, sdk) ==
    IF RejectsInput(query) THEN slot ELSE getStripEnvelope(slot, sdk)

\* The number of require attempts after a sanitizeQuery(query) call.
LookupsAfterSanitize(query, slot, n) ==
    IF ~ RejectsInput(query) /\ LooksUp(slot) THEN n + 1 ELSE n


----------------------------------------------------------------------------
(* types.ts                                                                *)

\* a ?? b
Coalesce(a, b) == IF a.type \in {"undefined", "null"} THEN b ELSE a

Bool(b) == [type |-> "boolean", bool |-> b]

\* parseConfig(raw): the defaults applied to the fields the plugin reads.
parseConfig(raw) ==
    [apiKey |-> Coalesce(raw.apiKey, Str("")).str,
     mode |-> Coalesce(raw.mode, Str("tandem")).str,
     containerTag |-> raw.containerTag,
     containerScope |-> Coalesce(raw.containerScope, Str("agent")).str,
     autoRecall |-> Coalesce(raw.autoRecall, Bool(TRUE)).bool]

\* A resolveContainerTag whose last resort is the scope name.
resolveContainerTag_ScopeLabel(cfg, agentId, sessionKey) ==
    LET prefix == IF Truthy(cfg.containerTag)
                  THEN cfg.containerTag.str \o ":" ELSE ""
    IN  IF cfg.containerScope = "session" /\ Truthy(sessionKey)
        THEN Str(prefix \o sessionKey.str)
        ELSE IF Truthy(agentId) THEN Str(prefix \o agentId.str)
        ELSE IF Truthy(cfg.containerTag) THEN cfg.containerTag
        ELSE Str(cfg.containerScope)

\* A resolveContainerTag whose session branch prefers the agent id.
resolveContainerTag_AgentFirst(cfg, agentId, sessionKey) ==
    LET prefix == IF Truthy(cfg.containerTag)
                  THEN cfg.containerTag.str \o ":" ELSE ""
    IN  IF Truthy(agentId) THEN Str(prefix \o agentId.str)
        ELSE IF cfg.containerScope = "session" /\ Truthy(sessionKey)
        THEN Str(prefix \o sessionKey.str)
        ELSE cfg.containerTag

\* A resolveContainerTag that uses the session key in every scope.
resolveContainerTag_SessionAlways(cfg, agentId, sessionKey) ==
    LET prefix == IF Truthy(cfg.containerTag)
                  THEN cfg.containerTag.str \o ":" ELSE ""
    IN  IF Truthy(sessionKey) THEN Str(prefix \o sessionKey.str)
        ELSE IF Truthy(agentId) THEN Str(prefix \o agentId.str)
        ELSE cfg.containerTag

\* A resolveContainerTag that tags by agent in every scope.
resolveContainerTag_AgentOnly(cfg, agentId, sessionKey) ==
    LET prefix == IF Truthy(cfg.containerTag)
                  THEN cfg.containerTag.str \o ":" ELSE ""
    IN  IF Truthy(agentId) THEN Str(prefix \o agentId.str)
        ELSE cfg.containerTag

\* A resolveContainerTag whose default branch is apart from the agent
\* branch and returns the bare containerTag.
resolveContainerTag_DefaultUntagged(cfg, agentId, sessionKey) ==
    LET prefix == IF Truthy(cfg.containerTag)
                  THEN cfg.containerTag.str \o ":" ELSE ""
    IN  IF cfg.containerScope = "session"
        THEN IF Truthy(sessionKey) THEN Str(prefix \o sessionKey.str)
             ELSE IF Truthy(agentId) THEN Str(prefix \o agentId.str)
             ELSE cfg.containerTag
        ELSE IF cfg.containerScope = "agent" /\ Truthy(agentId)
             THEN Str(prefix \o agentId.str)
             ELSE cfg.containerTag

\* A resolveContainerTag that prefixes the session key twice and ends the
\* bare containerTag with the separator.
resolveContainerTag_DoublePrefix(cfg, agentId, sessionKey) ==
    LET prefix == IF Truthy(cfg.containerTag)
                  THEN cfg.containerTag.str \o ":" ELSE ""
    IN  IF cfg.containerScope = "session" /\ Truthy(sessionKey)
        THEN Str(prefix \o prefix \o sessionKey.str)
        ELSE IF Truthy(agentId) THEN Str(prefix \o agentId.str)
        ELSE IF Truthy(cfg.containerTag) THEN Str(prefix)
        ELSE cfg.containerTag

\* A resolveContainerTag whose session branch files every session under
\* one tag.
resolveContainerTag_OneSessionTag(cfg, agentId, sessionKey) ==
    LET prefix == IF Truthy(cfg.containerTag)
                  THEN cfg.containerTag.str \o ":" ELSE ""
    IN  IF cfg.containerScope = "session"
        THEN IF Truthy(sessionKey) THEN Str(prefix \o "session")
             ELSE IF Truthy(agentId) THEN Str(prefix \o agentId.str)
             ELSE cfg.containerTag
        ELSE IF Truthy(agentId) THEN Str(prefix \o agentId.str)
             ELSE cfg.containerTag

\* resolveContainerTag({ config, agentId, sessionKey })
resolveContainerTag(cfg, agentId, sessionKey) ==
    LET prefix == IF Truthy(cfg.containerTag)
                  THEN cfg.containerTag.str \o ":" ELSE ""
    IN  IF cfg.containerScope = "session"
        THEN IF Truthy(sessionKey) THEN Str(prefix \o sessionKey.str)
             ELSE IF Truthy(agentId) THEN Str(prefix \o agentId.str)
             ELSE cfg.containerTag
        ELSE IF Truthy(agentId) THEN Str(prefix \o agentId.str)
             ELSE cfg.containerTag

----------------------------------------------------------------------------
(* Inputs                                                                  *)

Modes == {"tandem", "primary", "off"}

\* "global" stands for any containerScope the switch does not list.
Scopes == {"agent", "session", "global"}

ContainerTags == {Undefined, Str(""), Str("ns"), Str("agent"), Str("session")}

AgentIds == {Undefined, Str(""), Str("main"), Str("ops"), Str("agent")}

SessionKeys ==
    {Undefined, Str(""), Str("agent:main:telegram:group:123"),
     Str("agent:main:discord:dm:7"), Str("session")}

RawConfig(apiKey, mode, tag, scope, autoRecall) ==
    [apiKey |-> apiKey, mode |-> mode, containerTag |-> tag,
     containerScope |-> scope, autoRecall |-> autoRecall]

\* The configurations the resolver is called with.
ResolverConfigs ==
    {parseConfig(RawConfig(Str("key"), Undefined, tag, scope, Undefined)) :
        tag \in ContainerTags,
        scope \in {Undefined} \cup {Str(sc) : sc \in Scopes}}

NoRequest == [op |-> "none"]

\* The state of a process that has loaded the plugin and done nothing yet.
Idle ==
    /\ stripEnvelopeImpl = "undefined"
    /\ lookups = 0
    /\ call = NoCall
    /\ request = NoRequest
    /\ stored = {}
    /\ lastIndex = ZeroLastIndex
    /\ inflight = {}

----------------------------------------------------------------------------
(* The resolver called directly, as types.test.ts calls it.                *)

ResolveCall(cfg, agentId, sessionKey) ==
    /\ call' = [fn |-> "resolveContainerTag", config |-> cfg,
                agentId |-> agentId, sessionKey |-> sessionKey,
                result |-> resolveContainerTag(cfg, agentId, sessionKey)]
    /\ UNCHANGED <<stripEnvelopeImpl, hostSdk, inflight, lookups, input,
                   config, request, stored, lastIndex>>

DefaultConfig ==
    parseConfig(RawConfig(Undefined, Undefined, Undefined, Undefined, Undefined))

InitResolver ==
    /\ Idle
    /\ hostSdk = "missing"
    /\ input = Undefined
    /\ config = DefaultConfig

NextResolver ==
    \E cfg \in ResolverConfigs, agentId \in AgentIds, sessionKey \in SessionKeys :
        ResolveCall(cfg, agentId, sessionKey)

SpecResolver == InitResolver /\ [][NextResolver]_vars

Resolved == call.fn = "resolveContainerTag"

\* The prefix of the call's configuration, as the spec defines it.
CallPrefix ==
    IF call.config.containerTag = Undefined \/ call.config.containerTag = Str("")
    THEN "" ELSE call.config.containerTag.str \o ":"

Present(v) == v # Undefined /\ v # Str("")

ScopeLabels == {Str("agent"), Str("session")}

\* C1 as stated: resolveContainerTag never returns the literal string
\* "agent" or "session", whatever the configuration and the identifiers.
C1_NeverScopeLiteral == Resolved => call.result \notin ScopeLabels

\* C1 amended: resolveContainerTag returns "agent" or "session" only when
\* the identifier it selected, with no containerTag to prefix it, or the
\* bare containerTag is itself that string; the result never comes from
\* containerScope.
C1_ScopeLiteralOnlyFromInput ==
    (Resolved /\ call.result \in ScopeLabels) =>
        \/ call.config.containerTag = call.result
        \/ /\ ~ Present(call.config.containerTag)
           /\ \/ call.agentId = call.result
              \/ /\ call.sessionKey = call.result
                 /\ call.config.containerScope = "session"

C1_Witness ==
    /\ Resolved
    /\ call.config.containerScope = "agent"
    /\ call.agentId = Str("agent")
    /\ call.result = Str("agent")

\* C2: in session scope the result is prefix + sessionKey when the session
\* key is present and non-empty, else prefix + agentId when the agent id is
\* present and non-empty, else the bare containerTag (undefined when none is
\* configured); so a present agent id never leaves the call un-tagged.
C2_SessionPrecedence ==
    (Resolved /\ call.config.containerScope = "session") =>
        /\ Present(call.sessionKey) =>
               call.result = Str(CallPrefix \o call.sessionKey.str)
        /\ (~ Present(call.sessionKey) /\ Present(call.agentId)) =>
               call.result = Str(CallPrefix \o call.agentId.str)
        /\ (~ Present(call.sessionKey) /\ ~ Present(call.agentId)) =>
               call.result = call.config.containerTag
        /\ Present(call.agentId) => call.result # Undefined

C2_Witness ==
    /\ Resolved
    /\ call.config.containerScope = "session"
    /\ call.config.containerTag = Str("ns")
    /\ ~ Present(call.sessionKey)
    /\ call.agentId = Str("main")
    /\ call.result = Str("ns:main")

\* C3: in agent scope the result is prefix + agentId when the agent id is
\* present and non-empty and the bare containerTag otherwise; with neither
\* an identifier nor a containerTag the result is undefined in either scope;
\* the session key has no influence on an agent-scope result.
C3_AgentScope ==
    Resolved =>
        /\ call.config.containerScope = "agent" =>
            /\ Present(call.agentId) =>
                   call.result = Str(CallPrefix \o call.agentId.str)
            /\ ~ Present(call.agentId) => call.result = call.config.containerTag
            /\ \A other \in SessionKeys :
                   resolveContainerTag(call.config, call.agentId, other) = call.result
        /\ (/\ call.config.containerScope \in {"agent", "session"}
            /\ ~ Present(call.agentId) /\ ~ Present(call.sessionKey)
            /\ call.config.containerTag = Undefined) =>
               call.result = Undefined

C3_Witness ==
    /\ Resolved
    /\ call.config.containerScope = "agent"
    /\ call.config.containerTag = Str("ns")
    /\ call.agentId = Str("main")
    /\ Present(call.sessionKey)
    /\ call.result = Str("ns:main")

\* C16: with a containerScope that is absent, which parseConfig turns into
\* "agent", or that is anything but "session", resolveContainerTag returns
\* what it returns for containerScope = "agent" with the same containerTag,
\* agent id and session key.
C16_OtherScopesAsAgent ==
    Resolved =>
        /\ parseConfig(RawConfig(Undefined, Undefined, call.config.containerTag,
                                 Undefined, Undefined)).containerScope = "agent"
        /\ call.config.containerScope # "session" =>
               call.result =
                   resolveContainerTag(
                       [call.config EXCEPT !.containerScope = "agent"],
                       call.agentId, call.sessionKey)

C16_Witness ==
    /\ Resolved
    /\ call.config.containerScope = "global"
    /\ call.config.containerTag = Str("ns")
    /\ call.agentId = Str("ops")
    /\ Present(call.sessionKey)
    /\ call.result = Str("ns:ops")

\* The identifier the call's result is derived from: the session key in
\* session scope when there is one, else the agent id when there is one.
Selected ==
    IF call.config.containerScope = "session" /\ Present(call.sessionKey)
    THEN call.sessionKey
    ELSE IF Present(call.agentId) THEN call.agentId ELSE Undefined

\* C17: the containerTag prefix is applied exactly once: a result derived
\* from an identifier is containerTag, ":" and the identifier, or the
\* identifier alone when no containerTag is configured, and the fallback to
\* the bare containerTag is the containerTag with no separator after it.
C17_PrefixOnce ==
    Resolved =>
        /\ (Selected # Undefined /\ Present(call.config.containerTag)) =>
               /\ call.result =
                      Str(call.config.containerTag.str \o ":" \o Selected.str)
               /\ Len(call.result.str) =
                      Len(call.config.containerTag.str) + 1 + Len(Selected.str)
        /\ (Selected # Undefined /\ ~ Present(call.config.containerTag)) =>
               call.result = Selected
        /\ Selected = Undefined => call.result = call.config.containerTag

C17_Witness ==
    /\ Resolved
    /\ call.config.containerScope = "session"
    /\ call.config.containerTag = Str("ns")
    /\ call.sessionKey = Str("agent:main:telegram:group:123")
    /\ call.result = Str("ns:agent:main:telegram:group:123")

\* C27: for a fixed configuration with containerScope = "session", two
\* calls with different non-empty session keys return different container
\* tags, whatever agent ids they are given, and a tag made from a session
\* key is never the bare containerTag.
C27_SessionKeysInjective ==
    (Resolved /\ call.config.containerScope = "session"
              /\ Present(call.sessionKey)) =>
        /\ call.result # call.config.containerTag
        /\ \A other \in SessionKeys, agentId \in AgentIds :
               (Present(other) /\ other # call.sessionKey) =>
                   resolveContainerTag(call.config, agentId, other) # call.result

C27_Witness ==
    /\ Resolved
    /\ call.config.containerScope = "session"
    /\ call.config.containerTag = Undefined
    /\ call.agentId = Str("ops")
    /\ call.sessionKey = Str("agent:main:discord:dm:7")
    /\ call.result = Str("agent:main:discord:dm:7")


----------------------------------------------------------------------------
(* The sanitizer called directly, as its tests call it.                    *)

MaxPieces == 2

\* Fragments of the texts the sanitizer receives.
Pieces ==
    {"hello", " ", "[Telegram Bob id:7 +2m] ", "[note] ",
     "2026-01-27", " 04:03 UTC", "1700000000", " id:5",
     "user_id:\"a-b\"", "{\"id\":1}", "[ {\"k\":1}\n]"}

RECURSIVE Texts(_)
Texts(n) ==
    IF n = 0 THEN {""}
    ELSE Texts(n - 1) \cup {t \o p : t \in Texts(n - 1), p \in Pieces}

\* The arguments of the first call: texts, and values that are not texts.
SanInputs ==
    {Str(t) : t \in Texts(MaxPieces)} \cup {Null, Undefined, Num(0), Num(42)}

\* The arguments of the calls that follow.
FollowUps ==
    {Null, Str(""), Str("hello"), Str("id:5 hello"),
     Str("[Telegram Bob id:7 +2m] hello")}

SanitizeQueryOf(query, again) ==
    \E impl \in {getStripEnvelope(stripEnvelopeImpl, hostSdk)} :
        /\ call' = [fn |-> "sanitizeQuery", arg |-> query, again |-> again,
                    threw |-> SanitizeRaises(query, stripEnvelopeImpl, hostSdk),
                    slotBefore |-> stripEnvelopeImpl,
                    step1 |-> IF RejectsInput(query) \/ Raises(query) THEN ""
                              ELSE stripChannelEnvelope(impl, query.str),
                    result |-> sanitizeQuery(query, impl)]
        /\ stripEnvelopeImpl' =
               SlotAfterSanitize(query, stripEnvelopeImpl, hostSdk)
        /\ lookups' = LookupsAfterSanitize(query, stripEnvelopeImpl, lookups)
        /\ input' = query
        /\ lastIndex' = LastIndexAfterSanitize(query, lastIndex)
        /\ UNCHANGED <<hostSdk, inflight, config, request, stored>>

\* sanitizeQuery(input)
SanitizeQueryCall == SanitizeQueryOf(input, FALSE)

\* sanitizeQuery applied to what the previous sanitizeQuery returned.
SanitizeAgainCall ==
    /\ call.fn = "sanitizeQuery"
    /\ ~ call.threw
    /\ SanitizeQueryOf(Str(call.result), TRUE)

\* needsSanitization(input)
NeedsSanitizationCall ==
    \E run \in {RunNeedsSanitization(input, lastIndex)} :
        /\ call' = [fn |-> "needsSanitization", arg |-> input,
                    threw |-> Raises(input), before |-> lastIndex,
                    needed |-> run.needed]
        /\ lastIndex' = run.lastIndex
        /\ UNCHANGED <<stripEnvelopeImpl, hostSdk, inflight, lookups, input,
                       config, request, stored>>

\* The caller moves on to another argument.
Receive(v) ==
    /\ call # NoCall
    /\ input # v
    /\ input' = v
    /\ call' = NoCall
    /\ UNCHANGED <<stripEnvelopeImpl, hostSdk, inflight, lookups,
                   config, request, stored, lastIndex>>

InitSanitizer ==
    /\ Idle
    /\ hostSdk \in HostSdks
    /\ input \in SanInputs
    /\ config = DefaultConfig

NextSanitizer ==
    \/ SanitizeQueryCall
    \/ SanitizeAgainCall
    \/ NeedsSanitizationCall
    \/ \E v \in FollowUps : Receive(v)

SpecSanitizer == InitSanitizer /\ [][NextSanitizer]_vars

Sanitized == call.fn = "sanitizeQuery"

\* The text starts with a bracketed channel-envelope prefix.
HasEnvelopePrefix(s) == CHANNEL_METADATA_PATTERN(s) > 0

\* The text holds a raw timestamp.
HasTimestamp(s) ==
    \E k \in 1..Len(TIMESTAMP_PATTERNS) : Test(TIMESTAMP_PATTERNS[k], s)

\* The text holds an identifier-key pattern.
HasIdentifier(s) ==
    \E k \in 1..Len(USER_ID_PATTERNS) : Test(USER_ID_PATTERNS[k], s)

\* C7: the output of sanitizeQuery contains no bracketed channel-envelope
\* prefix, no raw timestamp and no identifier-key pattern, also when the
\* occurrence only comes into existence through an earlier removal.
C7_OutputHasNoMetadata ==
    Sanitized =>
        /\ ~ HasEnvelopePrefix(call.result)
        /\ ~ HasTimestamp(call.result)
        /\ ~ HasIdentifier(call.result)

\* C8: sanitizeQuery is idempotent: sanitizing what sanitizeQuery returned
\* gives it back unchanged.
C8_Idempotent == (Sanitized /\ call.again) => call.result = call.arg.str

NotText(v) == v \in {Null, Undefined, Str("")} \/ v.type # "string"

\* C9: sanitizeQuery returns the empty string for null, undefined, the
\* empty string and any value that is not a string, and raises for no
\* input; needsSanitization returns false for those inputs.
C9_RejectsNonText ==
    /\ Sanitized => ~ call.threw
    /\ (Sanitized /\ NotText(call.arg)) => call.result = ""
    /\ call.fn = "needsSanitization" => ~ call.threw
    /\ (call.fn = "needsSanitization" /\ NotText(call.arg)) => ~ call.needed

C9_Witness ==
    /\ Sanitized
    /\ call.arg = Num(42)
    /\ call.result = ""
    /\ ~ call.threw

\* C10: over any sequence of sanitizeQuery calls the lookup of the host's
\* stripEnvelope is attempted at most once: once a call has got past the
\* early return the slot holds the function or "null", it never changes
\* again, and a failed lookup is not retried.
C10_LookupAtMostOnce ==
    /\ [](lookups <= 1)
    /\ []((Sanitized /\ ~ NotText(call.arg)) =>
              stripEnvelopeImpl \in {"function", "null"})
    /\ [][stripEnvelopeImpl # "undefined" =>
              /\ stripEnvelopeImpl' = stripEnvelopeImpl
              /\ lookups' = lookups]_vars

C10_Witness ==
    /\ Sanitized
    /\ ~ NotText(call.arg)
    /\ hostSdk = "missing"
    /\ call.slotBefore = "null"
    /\ stripEnvelopeImpl = "null"
    /\ lookups = 1

\* C11: in step 1 of sanitizeQuery exactly one strategy runs: the host's
\* function alone when the lookup found one, the fallback pattern alone when
\* it found none; a lookup that fails (module missing, or no function
\* exported) leaves the slot "null" and the call does not throw.
C11_OneStrategy ==
    (Sanitized /\ ~ NotText(call.arg)) =>
        /\ ~ call.threw
        /\ hostSdk = "function" =>
               /\ stripEnvelopeImpl = "function"
               /\ call.step1 = HostStripEnvelope(call.arg.str)
        /\ hostSdk # "function" =>
               /\ stripEnvelopeImpl = "null"
               /\ call.step1 = FallbackStrip(call.arg.str)

C11_Witness ==
    /\ Sanitized
    /\ ~ NotText(call.arg)
    /\ hostSdk = "function"
    /\ call.step1 # call.arg.str
    /\ FallbackStrip(call.step1) # call.step1

\* C12: the result of sanitizeQuery is what timestamp removal, then
\* identifier removal, then JSON-artifact removal, then whitespace
\* normalization make of the output of step 1, each working on the output
\* of the one before, whichever strategy ran in step 1.
C12_StagesInOrder ==
    (Sanitized /\ ~ NotText(call.arg)) =>
        \E s2 \in {ReplaceEach(TIMESTAMP_PATTERNS, 1, call.step1)} :
            \E s3 \in {ReplaceEach(USER_ID_PATTERNS, 1, s2)} :
                \E s4 \in {ReplaceEach(JSON_ARTIFACT_PATTERNS, 1, s3)} :
                    call.result = NormalizeWhitespace(s4)

C12_Witness ==
    /\ Sanitized
    /\ ~ NotText(call.arg)
    /\ stripEnvelopeImpl = "function"
    /\ call.step1 # call.arg.str
    /\ HasIdentifier(call.step1)
    /\ call.result = ""

\* The position of the first character of the text that is not whitespace.
FirstInk(s) == RunEnd(s, 1, WhiteSpace)

\* The text begins, after optional whitespace, with a bracket.
LeadingBracket(s) == At(s, FirstInk(s)) = "["

\* The text begins, after optional whitespace, with a bracket, one of the
\* platform names in any case, any characters but "]" and a closing bracket.
NamesPlatform(s) ==
    /\ LeadingBracket(s)
    /\ \E name \in CHANNEL_NAMES : HasLitCI(s, FirstInk(s) + 1, name)
    /\ \E c \in (FirstInk(s) + 1)..Len(s) : At(s, c) = "]"

\* The text after the first closing bracket.
AfterBracket(s) ==
    From(s, 1 + CHOOSE c \in 1..Len(s) :
                    /\ At(s, c) = "]"
                    /\ \A k \in 1..(c - 1) : At(s, k) # "]")

\* C18: with the delegated stripper unavailable, for a text that begins
\* with a bracketed prefix naming a recognized platform the output of
\* sanitizeQuery is the sanitization of the text after the bracket; a
\* leading bracket that names no recognized platform is left by step 1.
C18_EnvelopeRemoved ==
    (Sanitized /\ ~ NotText(call.arg) /\ stripEnvelopeImpl = "null") =>
        /\ NamesPlatform(call.arg.str) =>
               call.result = sanitizeQuery(Str(AfterBracket(call.arg.str)), "null")
        /\ (LeadingBracket(call.arg.str) /\ ~ NamesPlatform(call.arg.str)) =>
               call.step1 = call.arg.str

\* The text holds a JSON artifact.
HasJsonArtifact(s) ==
    \E k \in 1..Len(JSON_ARTIFACT_PATTERNS) : Test(JSON_ARTIFACT_PATTERNS[k], s)

\* Every whitespace character of the text is a single space between two
\* characters that are not whitespace.
IsNormalized(s) ==
    \A i \in 1..Len(s) :
        At(s, i) \in WhiteSpace =>
            /\ At(s, i) = " "
            /\ i > 1 /\ i < Len(s)
            /\ At(s, i + 1) \notin WhiteSpace

\* The argument of the call is a clean query: step 1 found no envelope
\* prefix on it, it holds no timestamp, no identifier pattern and no JSON
\* artifact, and its whitespace is normalized.
CleanArg ==
    /\ ~ NotText(call.arg)
    /\ call.step1 = call.arg.str
    /\ ~ HasEnvelopePrefix(call.arg.str)
    /\ ~ HasTimestamp(call.arg.str)
    /\ ~ HasIdentifier(call.arg.str)
    /\ ~ HasJsonArtifact(call.arg.str)
    /\ IsNormalized(call.arg.str)

\* C19: sanitizeQuery returns a clean query as it received it.
C19_CleanUnchanged == (Sanitized /\ CleanArg) => call.result = call.arg.str

C19_Witness ==
    /\ Sanitized
    /\ CleanArg
    /\ call.arg = Str("[note] hello")
    /\ call.result = "[note] hello"

\* C20: every string sanitizeQuery returns has no whitespace at either
\* end and no two whitespace characters in a row, also where a removal
\* stage put a space.
C20_OutputNormalized == Sanitized => IsNormalized(call.result)

C20_Witness ==
    /\ Sanitized
    /\ ~ NotText(call.arg)
    /\ Len(call.step1) > Len(call.result) + 2
    /\ call.result = "[Telegram Bob ]"

\* Whether sanitizeQuery, with the strategy impl in step 1, alters text in
\* one of its four removal stages.
AlteredBy(impl, text) ==
    \E s1 \in {stripChannelEnvelope(impl, text)} :
        \E s2 \in {ReplaceEach(TIMESTAMP_PATTERNS, 1, s1)} :
            \E s3 \in {ReplaceEach(USER_ID_PATTERNS, 1, s2)} :
                \/ s1 # text \/ s2 # s1 \/ s3 # s2
                \/ ReplaceEach(JSON_ARTIFACT_PATTERNS, 1, s3) # s3

\* Whether one of the four pattern families of the module, applied to
\* text, alters it.
FamilyAlters(text) ==
    \/ FallbackStrip(text) # text
    \/ ReplaceEach(TIMESTAMP_PATTERNS, 1, text) # text
    \/ ReplaceEach(USER_ID_PATTERNS, 1, text) # text
    \/ ReplaceEach(JSON_ARTIFACT_PATTERNS, 1, text) # text

NeedsAsked == call.fn = "needsSanitization"

\* C13 as stated: needsSanitization(x) is true exactly when sanitizeQuery,
\* as it would run now, alters x in one of its four removal stages.
C13_NeededIffSanitizeAlters ==
    (NeedsAsked /\ ~ NotText(call.arg)) =>
        (call.needed <=>
            AlteredBy(getStripEnvelope(stripEnvelopeImpl, hostSdk), call.arg.str))

\* C13 as the code keeps it: needsSanitization(x) is true exactly when one
\* of the module's own four pattern families would alter x, the envelope
\* family being the fallback pattern whatever strategy sanitizeQuery uses;
\* a text that sanitizeQuery with the fallback strategy changes in its
\* whitespace only gives false.
C13_NeededIffFamilyAlters ==
    (NeedsAsked /\ ~ NotText(call.arg)) =>
        /\ call.needed <=> FamilyAlters(call.arg.str)
        /\ sanitizeQuery(call.arg, "null") = NormalizeWhitespace(call.arg.str)
               => ~ call.needed

C13_Witness ==
    /\ NeedsAsked
    /\ ~ NotText(call.arg)
    /\ call.needed
    /\ FallbackStrip(call.arg.str) = call.arg.str
    /\ ReplaceEach(TIMESTAMP_PATTERNS, 1, call.arg.str) = call.arg.str

\* C14: needsSanitization is stateless: whatever calls came before, it
\* returns what it returns in a fresh process, and a call of it leaves the
\* cached stripper slot, and with it every later sanitizeQuery, as they
\* were.
C14_NeedsIsStateless ==
    /\ [](NeedsAsked => call.needed = needsSanitization(call.arg, ZeroLastIndex))
    /\ [][call'.fn = "needsSanitization" =>
              /\ stripEnvelopeImpl' = stripEnvelopeImpl
              /\ lookups' = lookups]_vars

C14_Witness ==
    /\ NeedsAsked
    /\ call.before # ZeroLastIndex
    /\ stripEnvelopeImpl # "undefined"
    /\ call.needed
    /\ FallbackStrip(call.arg.str) = call.arg.str


----------------------------------------------------------------------------
(* hooks.ts and tools.ts: the handlers the host invokes.  A handler runs   *)
(* up to the request it awaits; Complete is the rest of it.                *)

\* Whether register() built a client: config.apiKey ? new SupermemoryClient : null
HasClient(cfg) == cfg.apiKey # ""

\* A register() without the early return for mode "off".
register_IgnoresOff(cfg) ==
    (IF HasClient(cfg) /\ cfg.mode = "tandem" THEN {"supermemory_search"}
     ELSE IF HasClient(cfg) /\ cfg.mode = "primary" THEN {"memory_search"}
     ELSE {})
    \cup (IF cfg.autoRecall THEN {"before_agent_start"} ELSE {})
    \cup {"after_compaction", "service"}

\* A register() that gives tandem mode both search tools.
register_BothTools(cfg) ==
    IF cfg.mode = "off" THEN {}
    ELSE (IF HasClient(cfg) /\ cfg.mode = "tandem"
          THEN {"supermemory_search", "memory_search"}
          ELSE IF HasClient(cfg) /\ cfg.mode = "primary" THEN {"memory_search"}
          ELSE {})
         \cup (IF cfg.autoRecall THEN {"before_agent_start"} ELSE {})
         \cup {"after_compaction", "service"}

\* register(api): the names of what it registers with the host, given the
\* parsed configuration: tools by registerTool, hooks by api.on, and the
\* service.
register(cfg) ==
    IF cfg.mode = "off" THEN {}
    ELSE (IF HasClient(cfg) /\ cfg.mode = "tandem" THEN {"supermemory_search"}
          ELSE IF HasClient(cfg) /\ cfg.mode = "primary" THEN {"memory_search"}
          ELSE {})
         \cup (IF cfg.autoRecall THEN {"before_agent_start"} ELSE {})
         \cup {"after_compaction", "service"}

\* Whether register() registered the tool of that name: with a client,
\* supermemory_search in tandem mode and memory_search in primary mode.
ToolRegistered(cfg, name) == name \in register(cfg)

\* What a handler does to the sanitizer's slot when it sanitizes text.
Sanitizes(text) ==
    /\ stripEnvelopeImpl' = SlotAfterSanitize(text, stripEnvelopeImpl, hostSdk)
    /\ lookups' = LookupsAfterSanitize(text, stripEnvelopeImpl, lookups)
    /\ lastIndex' = LastIndexAfterSanitize(text, lastIndex)

\* The prompts and tool queries the host hands to the handlers.
Prompts ==
    {Undefined, Str(""), Str("hey"), Str("hello"),
     Str("[Web] hello"), Str("[Web] id:5 a")}

\* sanitizeQuery(text) as a handler calls it, in the current state.
Sanitize(text) ==
    sanitizeQuery(text, getStripEnvelope(stripEnvelopeImpl, hostSdk))

\* A before_agent_start handler without the check of the raw prompt's
\* length.
BeforeAgentStartHandler_NoLengthCheck(prompt, agentId, sessionKey, conv) ==
    /\ request = NoRequest
    /\ IF \/ ~ HasClient(config)
          \/ ~ config.autoRecall \/ config.mode = "off"
          \/ ~ Truthy(prompt)
       THEN UNCHANGED <<stripEnvelopeImpl, lookups, lastIndex, request>>
       ELSE \E sanitizedQuery \in {Sanitize(prompt)} :
                /\ Sanitizes(prompt)
                /\ IF sanitizedQuery = "" \/ Len(sanitizedQuery) < 3
                   THEN UNCHANGED request
                   ELSE request' =
                            [op |-> "search", by |-> "before_agent_start",
                             q |-> sanitizedQuery, raw |-> prompt,
                             sanitized |-> TRUE,
                             containerTag |->
                                 resolveContainerTag(config, agentId, sessionKey),
                             resolved |-> TRUE,
                             agentId |-> agentId, sessionKey |-> sessionKey,
                             conv |-> conv]
    /\ UNCHANGED <<hostSdk, inflight, input, config, stored>>

\* The handler of createBeforeAgentStartHandler, for conversation conv,
\* up to its await.
BeforeAgentStartHandler(prompt, agentId, sessionKey, conv) ==
    /\ request = NoRequest
    /\ IF \/ ~ HasClient(config)
          \/ ~ config.autoRecall \/ config.mode = "off"
          \/ ~ Truthy(prompt) \/ Len(prompt.str) < 5
       THEN UNCHANGED <<stripEnvelopeImpl, lookups, lastIndex, request>>
       ELSE \E sanitizedQuery \in {Sanitize(prompt)} :
                /\ Sanitizes(prompt)
                /\ IF sanitizedQuery = "" \/ Len(sanitizedQuery) < 3
                   THEN UNCHANGED request
                   ELSE request' =
                            [op |-> "search", by |-> "before_agent_start",
                             q |-> sanitizedQuery, raw |-> prompt,
                             sanitized |-> TRUE,
                             containerTag |->
                                 resolveContainerTag(config, agentId, sessionKey),
                             resolved |-> TRUE,
                             agentId |-> agentId, sessionKey |-> sessionKey,
                             conv |-> conv]
    /\ UNCHANGED <<hostSdk, inflight, input, config, stored>>

\* The host fires before_agent_start.
BeforeAgentStart(prompt, agentId, sessionKey, conv) ==
    BeforeAgentStartHandler(prompt, agentId, sessionKey, conv) /\ UNCHANGED call

MaxStored == 1

\* An after_compaction handler that prefers the hook context's session
\* key to the event's.
AfterCompactionHandler_ContextKeyFirst(summary, eventKey, agentId, sessionKey, conv) ==
    /\ request = NoRequest
    /\ Cardinality(stored) < MaxStored
    /\ IF \/ ~ HasClient(config)
          \/ config.mode = "off"
          \/ ~ Truthy(summary) \/ Len(Trim(summary.str)) = 0
       THEN UNCHANGED <<request, stored>>
       ELSE LET key == Coalesce(sessionKey, eventKey)
                tag == resolveContainerTag(config, agentId, key)
            IN  /\ request' =
                       [op |-> "add", by |-> "after_compaction",
                        content |-> summary.str,
                        containerTag |-> tag, resolved |-> TRUE,
                        agentId |-> agentId, sessionKey |-> key,
                        conv |-> conv]
                /\ stored' = stored \cup {[conv |-> conv, keyed |-> Truthy(key),
                                           containerTag |-> tag]}
    /\ UNCHANGED <<stripEnvelopeImpl, hostSdk, inflight, lookups, input, config,
                   lastIndex>>

\* The handler of createAfterCompactionHandler, for conversation conv, up
\* to its await.
AfterCompactionHandler(summary, eventKey, agentId, sessionKey, conv) ==
    /\ request = NoRequest
    /\ Cardinality(stored) < MaxStored
    /\ IF \/ ~ HasClient(config)
          \/ config.mode = "off"
          \/ ~ Truthy(summary) \/ Len(Trim(summary.str)) = 0
       THEN UNCHANGED <<request, stored>>
       ELSE LET key == Coalesce(eventKey, sessionKey)
                tag == resolveContainerTag(config, agentId, key)
            IN  /\ request' =
                       [op |-> "add", by |-> "after_compaction",
                        content |-> summary.str,
                        containerTag |-> tag, resolved |-> TRUE,
                        agentId |-> agentId, sessionKey |-> key,
                        conv |-> conv]
                /\ stored' = stored \cup {[conv |-> conv, keyed |-> Truthy(key),
                                           containerTag |-> tag]}
    /\ UNCHANGED <<stripEnvelopeImpl, hostSdk, inflight, lookups, input, config,
                   lastIndex>>

\* The host fires after_compaction.
AfterCompaction(summary, eventKey, agentId, sessionKey, conv) ==
    AfterCompactionHandler(summary, eventKey, agentId, sessionKey, conv)
        /\ UNCHANGED call

\* The execute of createSupermemorySearchTool and createMemorySearchTool
\* as the newer tools.ts has them: the query is sanitized and the tag
\* resolved from the agent id captured at registration.
ToolExecuteHandler(name, query, ctxAgentId, conv) ==
    /\ request = NoRequest
    /\ ToolRegistered(config, name)
    /\ Sanitizes(query)
    /\ \E sanitizedQuery \in {Sanitize(query)} :
           IF sanitizedQuery = "" \/ Len(sanitizedQuery) < 2
           THEN UNCHANGED request
           ELSE request' =
                    [op |-> "search", by |-> name,
                     q |-> sanitizedQuery, raw |-> query, sanitized |-> TRUE,
                     containerTag |->
                         resolveContainerTag(config, ctxAgentId, Undefined),
                     resolved |-> TRUE,
                     agentId |-> ctxAgentId, sessionKey |-> Undefined,
                     conv |-> conv]
    /\ UNCHANGED <<hostSdk, inflight, input, config, stored>>

\* The agent calls a search tool of the newer tools.ts.
ToolExecute(name, query, ctxAgentId, conv) ==
    ToolExecuteHandler(name, query, ctxAgentId, conv) /\ UNCHANGED call

\* The execute of the same two tools as the older tools.ts has them: the
\* query and config.containerTag go to the remote search as they are.
LegacyToolExecuteHandler(name, query, conv) ==
    /\ request = NoRequest
    /\ ToolRegistered(config, name)
    /\ query.type = "string"
    /\ request' =
           [op |-> "search", by |-> name,
            q |-> query.str, raw |-> query, sanitized |-> FALSE,
            containerTag |-> config.containerTag, resolved |-> FALSE,
            agentId |-> Undefined, sessionKey |-> Undefined,
            conv |-> conv]
    /\ UNCHANGED <<stripEnvelopeImpl, hostSdk, inflight, lookups, input,
                   config, stored, lastIndex>>

\* The agent calls a search tool of the older tools.ts.
LegacyToolExecute(name, query, conv) ==
    LegacyToolExecuteHandler(name, query, conv) /\ UNCHANGED call

\* How a request to the remote service ends: with chunks, with none, with
\* fetch rejecting, or with a response that is not ok.
RemoteOutcomes == {"results", "empty", "network_error", "http_error"}

\* Whether client.search / client.add throws: fetch rejects, or the
\* response is not ok and the client throws an Error.
ClientThrows(outcome) == outcome \in {"network_error", "http_error"}

\* Handlers that let the client's exception through.
HandlerSettles_NoCatch(by, outcome) ==
    IF ClientThrows(outcome)
    THEN [settled |-> "rejected", value |-> "error", logged |-> "none"]
    ELSE IF by = "before_agent_start"
    THEN IF outcome = "empty"
         THEN [settled |-> "resolved", value |-> "nothing", logged |-> "none"]
         ELSE [settled |-> "resolved", value |-> "context", logged |-> "info"]
    ELSE IF by = "after_compaction"
    THEN [settled |-> "resolved", value |-> "nothing", logged |-> "info"]
    ELSE IF outcome = "empty"
         THEN [settled |-> "resolved", value |-> "none_found_text", logged |-> "none"]
         ELSE [settled |-> "resolved", value |-> "found_text", logged |-> "none"]

\* The part of a handler after its await: how its promise settles, what it
\* resolves with and what it logs.
HandlerSettles(by, outcome) ==
    IF by = "before_agent_start"
    THEN IF ClientThrows(outcome)
         THEN [settled |-> "resolved", value |-> "nothing", logged |-> "warn"]
         ELSE IF outcome = "empty"
         THEN [settled |-> "resolved", value |-> "nothing", logged |-> "none"]
         ELSE [settled |-> "resolved", value |-> "context", logged |-> "info"]
    ELSE IF by = "after_compaction"
    THEN IF ClientThrows(outcome)
         THEN [settled |-> "resolved", value |-> "nothing", logged |-> "error"]
         ELSE [settled |-> "resolved", value |-> "nothing", logged |-> "info"]
    ELSE IF ClientThrows(outcome)
         THEN [settled |-> "resolved", value |-> "error_text", logged |-> "none"]
         ELSE IF outcome = "empty"
         THEN [settled |-> "resolved", value |-> "none_found_text", logged |-> "none"]
         ELSE [settled |-> "resolved", value |-> "found_text", logged |-> "none"]

\* The remote service answers, or fails, and the awaiting handler runs to
\* its end.  An add has no empty answer.
Complete(outcome) ==
    /\ request.op \in {"search", "add"}
    /\ request.op = "add" => outcome # "empty"
    /\ request' = [op |-> "settled", by |-> request.by, outcome |-> outcome,
                   handler |-> HandlerSettles(request.by, outcome)]
    /\ UNCHANGED <<stripEnvelopeImpl, hostSdk, inflight, lookups, input, call,
                   config, stored, lastIndex>>

\* The host takes what the handler's promise settled with.
Return ==
    /\ request.op = "settled"
    /\ request' = NoRequest
    /\ UNCHANGED <<stripEnvelopeImpl, hostSdk, inflight, lookups, input, call,
                   config, stored, lastIndex>>

\* The conversations the host runs, named by their session keys.
Conversations == {"agent:main:telegram:group:123", "agent:main:discord:dm:7"}

\* hookCtx.agentId, and the agent id a tool context captured.
HostAgentIds == {Undefined, Str("main")}

\* hookCtx.sessionKey for a conversation: the host may leave it out.
HostSessionKeys(conv) == {Undefined, Str(conv)}

\* event.sessionKey for a conversation.
EventSessionKeys(conv) == {Undefined, Str(""), Str(conv)}

Summaries == {Undefined, Str(""), Str("  "), Str("met Bob"), Str(" met Bob\n")}

ToolNames == {"supermemory_search", "memory_search"}

\* The switches of a raw configuration: apiKey, mode, autoRecall.  One
\* with everything on and defaulted, and one for each way of turning a
\* part of the plugin off or changing its mode.
Switches ==
    {<<Str("key"), Undefined, Undefined>>,
     <<Str("key"), Str("primary"), Undefined>>,
     <<Str("key"), Str("off"), Undefined>>,
     <<Str("key"), Undefined, Bool(FALSE)>>,
     <<Undefined, Undefined, Undefined>>}

PluginConfigs ==
    {parseConfig(RawConfig(sw[1], sw[2], tag, scope, sw[3])) :
        sw \in Switches,
        tag \in {Undefined, Str("ns")},
        scope \in {Undefined, Str("session"), Str("global")}}

Init ==
    /\ Idle
    /\ hostSdk \in {"missing", "function"}
    /\ input = Undefined
    /\ config \in PluginConfigs

Next ==
    \/ \E conv \in Conversations, prompt \in Prompts, agentId \in HostAgentIds :
           \E sessionKey \in HostSessionKeys(conv) :
               BeforeAgentStart(prompt, agentId, sessionKey, conv)
    \/ \E conv \in Conversations, summary \in Summaries, agentId \in HostAgentIds :
           \E sessionKey \in HostSessionKeys(conv), eventKey \in EventSessionKeys(conv) :
               AfterCompaction(summary, eventKey, agentId, sessionKey, conv)
    \/ \E conv \in Conversations, name \in ToolNames, query \in Prompts \ {Undefined} :
           \E ctxAgentId \in HostAgentIds :
               ToolExecute(name, query, ctxAgentId, conv)
    \/ \E conv \in Conversations, name \in ToolNames, query \in Prompts \ {Undefined} :
           LegacyToolExecute(name, query, conv)
    \/ \E outcome \in RemoteOutcomes : Complete(outcome)
    \/ Return

Spec == Init /\ [][Next]_vars

Searching == request.op = "search"

SessionScoped == config.containerScope = "session"

\* The summaries stored for a conversation other than the one the awaited
\* request was sent for.
OtherSummaries == {s \in stored : s.conv # request.conv}

C5_EveryRequestResolved ==
    request.op \in {"search", "add"} =>
        /\ request.resolved
        /\ request.containerTag =
               resolveContainerTag(config, request.agentId, request.sessionKey)

\* C6: the q of every remote search request is what sanitizeQuery made of
\* the inbound text; the raw text is never dispatched.
C6_EveryQuerySanitized ==
    Searching =>
        /\ request.sanitized
        /\ request.q = Sanitize(request.raw)

Settled == request.op = "settled"

\* C15: a failure of the remote service, whether fetch rejects or the
\* response is not ok, never leaves a handler as a rejection:
\* before_agent_start resolves with no context after a warning,
\* after_compaction resolves after logging an error, and a search tool
\* resolves with a text that carries the error.
C15_FailuresStayInside ==
    (Settled /\ ClientThrows(request.outcome)) =>
        /\ request.handler.settled = "resolved"
        /\ request.by = "before_agent_start" =>
               request.handler = [settled |-> "resolved", value |-> "nothing",
                                  logged |-> "warn"]
        /\ request.by = "after_compaction" =>
               request.handler = [settled |-> "resolved", value |-> "nothing",
                                  logged |-> "error"]
        /\ request.by \in ToolNames =>
               request.handler.value = "error_text"

C15_Witness ==
    /\ Settled
    /\ request.outcome = "http_error"
    /\ request.by = "after_compaction"
    /\ request.handler.settled = "resolved"
    /\ Cardinality(stored) = 1


----------------------------------------------------------------------------
(* supermemory-client.ts: what search makes of the remote response, and    *)
(* what the handlers make of its results.                                  *)

MaxDocs == 2

MaxChunks == 3

\* A JSON array.
Arr(items) == [type |-> "array", items |-> items]

\* A number below 100 in decimal, as a template literal prints it.
Decimal(n) ==
    LET digit(d) == SubSeq("0123456789", d + 1, d + 1)
    IN  IF n < 10 THEN digit(n) ELSE digit(n \div 10) \o digit(n % 10)

\* The documents the remote service answers with: document k has k chunks
\* of its own, with scores that rise where a ranking would have them fall;
\* document 0 has an empty chunk list.
RemoteDocument(k) ==
    [documentId |-> "doc" \o Decimal(k),
     chunks |-> Arr([c \in 1..k |->
                        [content |-> "m" \o Decimal(k) \o "." \o Decimal(c),
                         score |-> 10 * k + c]])]

\* A document that came without a chunks field.
ChunklessDocument == [documentId |-> "bare", chunks |-> Undefined]

RemoteDocuments == {RemoteDocument(k) : k \in 0..MaxChunks} \cup {ChunklessDocument}

RECURSIVE DocumentLists(_)
DocumentLists(n) ==
    IF n = 0 THEN {<<>>}
    ELSE DocumentLists(n - 1)
         \cup {Append(l, d) : l \in DocumentLists(n - 1), d \in RemoteDocuments}

\* The bodies of an ok response: `results` may be missing, and a document
\* may come more than once.
SearchResponses ==
    {[results |-> Arr(l)] : l \in DocumentLists(MaxDocs)}
    \cup {[results |-> Undefined]}

\* A search that keeps one result for each document.
search_FirstChunkOnly(data) ==
    LET docs == IF data.results = Undefined THEN <<>> ELSE data.results.items
        RECURSIVE Firsts(_)
        Firsts(k) ==
            IF k > Len(docs) THEN <<>>
            ELSE IF docs[k].chunks = Undefined \/ docs[k].chunks = Arr(<<>>)
                 THEN Firsts(k + 1)
                 ELSE <<[id |-> docs[k].documentId,
                         content |-> docs[k].chunks.items[1].content,
                         score |-> docs[k].chunks.items[1].score]>> \o Firsts(k + 1)
    IN  Firsts(1)

\* SupermemoryClient.search, from the parsed body on: the two nested loops
\* that push one result for each chunk of each document.
search(data) ==
    LET docs == IF data.results = Undefined THEN <<>> ELSE data.results.items
        chunksOf(doc) == IF doc.chunks = Undefined THEN <<>> ELSE doc.chunks.items
        RECURSIVE PushFrom(_, _)
        PushFrom(k, c) ==
            IF k > Len(docs) THEN <<>>
            ELSE IF c > Len(chunksOf(docs[k])) THEN PushFrom(k + 1, 1)
            ELSE <<[id |-> docs[k].documentId,
                    content |-> chunksOf(docs[k])[c].content,
                    score |-> chunksOf(docs[k])[c].score]>> \o PushFrom(k, c + 1)
    IN  PushFrom(1, 1)

\* results.slice(0, 5).map((r) => `- ${r.content}`): the lines of the
\* context the recall hook prepends.
MemoryContext(results) ==
    [i \in 1..(IF Len(results) < 5 THEN Len(results) ELSE 5) |->
        "- " \o results[i].content]

\* results.map((r, i) => `${i + 1}. ${r.content} (relevance: ...%)`): the
\* lines of the text a search tool returns; a score is kept in percent.
ToolText(results) ==
    [i \in 1..Len(results) |->
        Decimal(i) \o ". " \o results[i].content
            \o " (relevance: " \o Decimal(results[i].score) \o "%)"]

\* The lines the awaiting handler renders from the results of its search.
Rendered(by, results) ==
    IF by = "before_agent_start" THEN MemoryContext(results) ELSE ToolText(results)

\* The remote service answers a search with an ok response, and the
\* awaiting handler runs to its end.
Answer(data) ==
    /\ request.op = "search"
    /\ \E results \in {search(data)} :
           \E outcome \in {IF Len(results) = 0 THEN "empty" ELSE "results"} :
               request' = [op |-> "settled", by |-> request.by,
                           outcome |-> outcome,
                           handler |-> HandlerSettles(request.by, outcome),
                           data |-> data, results |-> results,
                           lines |-> Rendered(request.by, results)]
    /\ UNCHANGED <<stripEnvelopeImpl, hostSdk, inflight, lookups, input, call,
                   config, stored, lastIndex>>

----------------------------------------------------------------------------
(* The handlers called one at a time, each with one event, as a test of    *)
(* hooks.ts and tools.ts would call them.                                  *)

\* One conversation's events and tool calls.
EventsOf(conv) ==
    {[hook |-> "before_agent_start", prompt |-> prompt, agentId |-> agentId,
      sessionKey |-> sessionKey, conv |-> conv] :
        prompt \in Prompts, agentId \in HostAgentIds,
        sessionKey \in HostSessionKeys(conv)}
    \cup
    {[hook |-> "after_compaction", summary |-> summary, eventKey |-> eventKey,
      agentId |-> agentId, sessionKey |-> sessionKey, conv |-> conv] :
        summary \in Summaries, eventKey \in EventSessionKeys(conv),
        agentId \in HostAgentIds, sessionKey \in HostSessionKeys(conv)}
    \cup
    {[hook |-> "tool", name |-> name, legacy |-> legacy, query |-> query,
      agentId |-> agentId, conv |-> conv] :
        name \in ToolNames, legacy \in BOOLEAN, query \in Prompts \ {Undefined},
        agentId \in HostAgentIds}

HandlerEvents == EventsOf("agent:main:telegram:group:123")

\* The handler of before_agent_start is called with the event.
InvokeBeforeAgentStart ==
    /\ call = NoCall
    /\ input.hook = "before_agent_start"
    /\ BeforeAgentStartHandler(input.prompt, input.agentId, input.sessionKey,
                               input.conv)
    /\ call' = [fn |-> "before_agent_start", event |-> input,
                sent |-> request' # NoRequest]

\* The handler of after_compaction is called with the event.
InvokeAfterCompaction ==
    /\ call = NoCall
    /\ input.hook = "after_compaction"
    /\ AfterCompactionHandler(input.summary, input.eventKey, input.agentId,
                              input.sessionKey, input.conv)
    /\ call' = [fn |-> "after_compaction", event |-> input,
                sent |-> request' # NoRequest]

\* execute of a registered search tool is called with the query.
InvokeTool ==
    /\ call = NoCall
    /\ input.hook = "tool"
    /\ IF input.legacy
       THEN LegacyToolExecuteHandler(input.name, input.query, input.conv)
       ELSE ToolExecuteHandler(input.name, input.query, input.agentId, input.conv)
    /\ call' = [fn |-> input.name, event |-> input,
                sent |-> request' # NoRequest]

\* The remote service fails, or acknowledges an add.
Fail(outcome) ==
    /\ request.op = "add" \/ ClientThrows(outcome)
    /\ Complete(outcome)

InitHandlers ==
    /\ Idle
    /\ hostSdk \in {"missing", "function"}
    /\ config \in PluginConfigs
    /\ input \in HandlerEvents

NextHandlers ==
    \/ InvokeBeforeAgentStart
    \/ InvokeAfterCompaction
    \/ InvokeTool
    \/ \E data \in SearchResponses : Answer(data)
    \/ \E outcome \in RemoteOutcomes : Fail(outcome)
    \/ Return

SpecHandlers == InitHandlers /\ [][NextHandlers]_vars

Invoked == call # NoCall

\* C22: with mode = "off" register() registers no tool, no hook and no
\* service, and no remote search or add request is ever issued: no handler
\* that is called sends one, and nothing is stored.
C22_OffRegistersNothing ==
    config.mode = "off" =>
        /\ register(config) = {}
        /\ \A name \in ToolNames : ~ ToolRegistered(config, name)
        /\ request = NoRequest
        /\ stored = {}
        /\ Invoked => ~ call.sent

C22_Witness ==
    /\ config.mode = "off"
    /\ HasClient(config)
    /\ config.autoRecall
    /\ call.fn = "after_compaction"
    /\ call.event.summary = Str("met Bob")
    /\ ~ call.sent

\* The search tools register() registered.
RegisteredTools == register(config) \cap ToolNames

\* C23 as stated: in tandem mode supermemory_search is registered and
\* memory_search is not, in primary mode memory_search is registered and
\* supermemory_search is not, and never both.
C23_ToolByMode ==
    /\ config.mode = "tandem" => RegisteredTools = {"supermemory_search"}
    /\ config.mode = "primary" => RegisteredTools = {"memory_search"}
    /\ Cardinality(RegisteredTools) <= 1

\* C23 as the code keeps it: with an apiKey configured the registered
\* search tool is supermemory_search alone in tandem mode and
\* memory_search alone in primary mode; without an apiKey no search tool
\* is registered in any mode; the two are never both registered, and a
\* tool that executes is the one of the mode.
C23_ToolByModeWithClient ==
    /\ (HasClient(config) /\ config.mode = "tandem") =>
           RegisteredTools = {"supermemory_search"}
    /\ (HasClient(config) /\ config.mode = "primary") =>
           RegisteredTools = {"memory_search"}
    /\ ~ HasClient(config) => RegisteredTools = {}
    /\ Cardinality(RegisteredTools) <= 1
    /\ call.fn \in ToolNames =>
           call.fn = (IF config.mode = "tandem" THEN "supermemory_search"
                      ELSE "memory_search")

C23_Witness ==
    /\ config.mode = "primary"
    /\ HasClient(config)
    /\ call.fn = "memory_search"
    /\ ~ call.event.legacy
    /\ call.sent
    /\ request.op = "search"

\* An ok response has come back for the awaited search.
Answered == request.op = "settled" /\ "data" \in DOMAIN request

\* The documents of the response, none when `results` is missing.
DocsOf(data) == IF data.results = Undefined THEN <<>> ELSE data.results.items

\* How many chunks the document at position k of the response has.
ChunkCount(data, k) ==
    IF DocsOf(data)[k].chunks = Undefined THEN 0
    ELSE Len(DocsOf(data)[k].chunks.items)

\* How many chunks the documents before position k have together.
RECURSIVE ChunksBefore(_, _)
ChunksBefore(data, k) ==
    IF k <= 1 THEN 0
    ELSE ChunksBefore(data, k - 1) + ChunkCount(data, k - 1)

\* C24: search returns one result for each chunk, the documents in the
\* order of the response and each document's chunks in their order, none
\* dropped, doubled or moved; the recall hook lists the first results and
\* the tools all of them, in that order.
C24_ChunksInRemoteOrder ==
    Answered =>
        /\ Len(request.results) =
               ChunksBefore(request.data, Len(DocsOf(request.data)) + 1)
        /\ \A k \in 1..Len(DocsOf(request.data)) :
               \A c \in 1..ChunkCount(request.data, k) :
                   request.results[ChunksBefore(request.data, k) + c] =
                       [id |-> DocsOf(request.data)[k].documentId,
                        content |-> DocsOf(request.data)[k].chunks.items[c].content,
                        score |-> DocsOf(request.data)[k].chunks.items[c].score]
        /\ request.by = "before_agent_start" =>
               /\ Len(request.lines) <= Len(request.results)
               /\ \A i \in 1..Len(request.lines) :
                      request.lines[i] = "- " \o request.results[i].content
        /\ request.by \in ToolNames =>
               /\ Len(request.lines) = Len(request.results)
               /\ \A i \in 1..Len(request.lines) :
                      \E rest \in {" (relevance: "
                                       \o Decimal(request.results[i].score) \o "%)"} :
                          request.lines[i] =
                              Decimal(i) \o ". " \o request.results[i].content \o rest

C24_Witness ==
    /\ Answered
    /\ request.by = "supermemory_search"
    /\ request.data = [results |-> Arr(<<RemoteDocument(3), RemoteDocument(1)>>)]
    /\ Len(request.results) = 4
    /\ request.results[3].score > request.results[4].score
    /\ request.lines[4] = "4. m1.1 (relevance: 11%)"

Recalled == call.fn = "before_agent_start"

\* What sanitizeQuery makes of the prompt in the process the handler was
\* called in.
SanitizedPrompt ==
    sanitizeQuery(call.event.prompt, getStripEnvelope("undefined", hostSdk))

\* The conditions under which the recall is to be skipped.
RecallSkipped ==
    \/ ~ HasClient(config)
    \/ ~ config.autoRecall
    \/ config.mode = "off"
    \/ call.event.prompt \in {Undefined, Str("")}
    \/ Len(call.event.prompt.str) < 5
    \/ Len(SanitizedPrompt) < 3

\* C25: the before_agent_start handler sends no search and returns no
\* context when the client is unconfigured, autoRecall is false, mode is
\* "off", the raw prompt is empty or shorter than 5 characters, or the
\* sanitized prompt is shorter than 3 characters; otherwise it sends one
\* search, for the sanitized prompt; it returns a context only when the
\* search gave at least one result, and the context lists at most 5.
C25_RecallGuards ==
    Recalled =>
        /\ RecallSkipped => ~ call.sent /\ request = NoRequest
        /\ ~ RecallSkipped =>
               /\ call.sent
               /\ request.op = "search" =>
                      /\ request.by = "before_agent_start"
                      /\ request.q = SanitizedPrompt
        /\ request.op = "settled" =>
               /\ request.by = "before_agent_start"
               /\ request.handler.value = "context" =>
                      /\ Answered
                      /\ Len(request.results) >= 1
                      /\ Len(request.lines) >= 1
                      /\ Len(request.lines) <= 5
               /\ request.handler.value # "context" =>
                      request.handler.value = "nothing"

C25_Witness ==
    /\ Recalled
    /\ call.event.prompt = Str("[Web] hello")
    /\ call.sent
    /\ Answered
    /\ request.handler.value = "context"
    /\ Len(request.results) = 6
    /\ Len(request.lines) = 5

Compacted == call.fn = "after_compaction"

\* The conditions under which the summary is not to be stored.
StorageSkipped ==
    \/ ~ HasClient(config)
    \/ config.mode = "off"
    \/ call.event.summary \in {Undefined, Str("")}
    \/ \A i \in 1..Len(call.event.summary.str) :
           At(call.event.summary.str, i) \in WhiteSpace

\* The session key the tag of the add is to be resolved with.
StorageKey ==
    IF call.event.eventKey # Undefined THEN call.event.eventKey
    ELSE call.event.sessionKey

\* C26: the after_compaction handler sends no add when the client is
\* unconfigured, mode is "off", or the summary is absent, empty or only
\* whitespace; otherwise it sends one add whose content is the summary as
\* it came and whose tag is resolved with the event's sessionKey when the
\* event defines one and with the hook context's sessionKey otherwise.
C26_StorageGuards ==
    Compacted =>
        /\ StorageSkipped =>
               ~ call.sent /\ request = NoRequest /\ stored = {}
        /\ ~ StorageSkipped =>
               /\ call.sent
               /\ stored =
                      {[conv |-> call.event.conv, keyed |-> Truthy(StorageKey),
                        containerTag |->
                            resolveContainerTag(config, call.event.agentId,
                                                StorageKey)]}
               /\ request.op = "add" =>
                      /\ request.content = call.event.summary.str
                      /\ request.containerTag =
                             resolveContainerTag(config, call.event.agentId,
                                                 StorageKey)

C26_Witness ==
    /\ Compacted
    /\ config.containerScope = "session"
    /\ call.event.summary = Str(" met Bob\n")
    /\ call.event.eventKey = Str("")
    /\ call.event.sessionKey # Undefined
    /\ call.event.agentId = Str("main")
    /\ request.op = "add"
    /\ request.content = " met Bob\n"
    /\ request.containerTag = Str("main")


----------------------------------------------------------------------------
(* Handlers in flight together.  A handler runs without interruption up to *)
(* its await; while it waits the host may start other handlers, and the    *)
(* awaited requests may end in any order.                                  *)

MaxInFlight == 2

\* The handler that has just sent its request waits, and the event loop
\* is free for another handler.
Suspend ==
    /\ request.op \in {"search", "add"}
    /\ Cardinality(inflight) < MaxInFlight
    /\ inflight' = inflight \cup {request}
    /\ request' = NoRequest
    /\ UNCHANGED <<stripEnvelopeImpl, hostSdk, lookups, input, call,
                   config, stored, lastIndex>>

\* The remote service turns to the request of a waiting handler.
Resume(r) ==
    /\ request = NoRequest
    /\ r \in inflight
    /\ inflight' = inflight \ {r}
    /\ request' = r
    /\ UNCHANGED <<stripEnvelopeImpl, hostSdk, lookups, input, call,
                   config, stored, lastIndex>>

\* The configurations of a plugin whose handlers all run.
ConcurrentConfigs ==
    {parseConfig(RawConfig(Str("key"), mode, Str("ns"), scope, Undefined)) :
        mode \in {Undefined, Str("primary")},
        scope \in {Undefined, Str("session")}}

\* The prompts and queries of handlers that run together: two that come
\* to the same sanitized text, and one that differs.
ConcurrentPrompts == {Str("hello"), Str("[Web] hello"), Str("[note] hello")}

InitConcurrent ==
    /\ Idle
    /\ hostSdk \in {"missing", "function"}
    /\ input = Undefined
    /\ config \in ConcurrentConfigs

NextConcurrent ==
    \/ \E conv \in Conversations, prompt \in ConcurrentPrompts :
           BeforeAgentStart(prompt, Str("main"), Str(conv), conv)
    \/ \E conv \in Conversations :
           AfterCompaction(Str("met Bob"), Undefined, Str("main"), Str(conv), conv)
    \/ \E name \in ToolNames, query \in ConcurrentPrompts :
           ToolExecute(name, query, Str("main"), "agent:main:discord:dm:7")
    \/ \E name \in ToolNames, query \in ConcurrentPrompts :
           LegacyToolExecute(name, query, "agent:main:discord:dm:7")
    \/ Suspend
    \/ \E r \in inflight : Resume(r)
    \/ \E outcome \in RemoteOutcomes : Complete(outcome)
    \/ Return

SpecConcurrent == InitConcurrent /\ [][NextConcurrent]_vars

\* The requests that are awaited.
Awaited ==
    inflight \cup (IF request.op \in {"search", "add"} THEN {request} ELSE {})

\* What sanitizeQuery makes of a text in this process, whichever call of
\* it was the first.
SanitizedAlone(text) == sanitizeQuery(text, getStripEnvelope("undefined", hostSdk))

\* C21: with handlers in flight together, every awaited search carries
\* what sanitizeQuery makes of that invocation's own text, every awaited
\* request carries the tag resolved from that invocation's own
\* identifiers, and the cached stripper slot, once set, has the value the
\* lookup gives in this process, whichever handler set it.
C21_EachRequestItsOwn ==
    /\ \A r \in Awaited :
           /\ r.op = "search" => r.q = SanitizedAlone(r.raw)
           /\ r.containerTag = resolveContainerTag(config, r.agentId, r.sessionKey)
    /\ stripEnvelopeImpl \in {"undefined", getStripEnvelope("undefined", hostSdk)}

=============================================================================
